---- MODULE Spec2Model ----
(***************************************************************************)
(* Model of the streaming transfer engine (poll) and of the stream lock /  *)
(* transceiver-mode handling of HackrfDevice, src/lib/interface.ts.        *)
(*                                                                         *)
(* One step of the model is one run-to-completion handler of the Node.js   *)
(* event loop: a call made by the user, the completion of a control        *)
(* request, the completion callback of a bulk transfer, a setImmediate     *)
(* callback.  The synchronous prologue of a transmit call is split at the  *)
(* invocations of the user callback, which may re-enter the API.           *)
(***************************************************************************)
EXTENDS Integers, Sequences, FiniteSets, TLC

\* ---------------------------------------------------------------- bounds
MaxTransferCount == 2   \* largest options.transferCount explored
MaxCalls == 2           \* the user callback stops or throws from this call on
MaxDataLen == 3         \* largest cpld_write payload (bytes)
MaxChunkSize == 2       \* largest cpld_write chunkSize

\* ------------------------------------------------------ program constants
OFF == 0
RECEIVE == 1
TRANSMIT == 2
CPLD_UPDATE == 4
RX_SWEEP == 5
SET_TRANSCEIVER_MODE == 1
ApiSweep == 260         \* 0x0104, required by sweepReceive
ApiVersions == {259, 260}   \* firmware versions explored (0x0103, 0x0104)

\* vendor requests of the version-gated control operations
INIT_SWEEP == 26
OPERACAKE_GET_BOARDS == 27
OPERACAKE_SET_PORTS == 28
SET_HW_SYNC_MODE == 29
RESET == 30
OPERACAKE_SET_RANGES == 31
CLKOUT_ENABLE == 32
SPIFLASH_STATUS == 33
SPIFLASH_CLEAR_STATUS == 34
OPERACAKE_GPIO_TEST == 35
UI_ENABLE == 37

Api102 == 258           \* 0x0102
Api103 == 259           \* 0x0103
Api104 == 260           \* 0x0104
\* firmware versions explored with the control operations (0x0101..0x0104)
GatedVersions == 257..260

GatedOps ==
  {"spiflash_getStatus", "spiflash_clearStatus", "setHwSyncMode", "reset",
   "initSweep", "getOperacakeBoards", "setOperacakePorts",
   "setOperacakeRanges", "operacakeGpioTest", "setClkoutEnable",
   "setUiEnable"}

\* the argument of usbApiRequired in each operation
ApiRequired(op) ==
  CASE op \in {"setHwSyncMode", "reset", "initSweep", "getOperacakeBoards",
               "setOperacakePorts"} -> Api102
    [] op \in {"spiflash_getStatus", "spiflash_clearStatus",
               "setOperacakeRanges", "operacakeGpioTest",
               "setClkoutEnable"} -> Api103
    [] OTHER -> Api104

\* the vendor request of the control transfer each operation issues
RequestOf(op) ==
  CASE op = "spiflash_getStatus" -> SPIFLASH_STATUS
    [] op = "spiflash_clearStatus" -> SPIFLASH_CLEAR_STATUS
    [] op = "setHwSyncMode" -> SET_HW_SYNC_MODE
    [] op = "reset" -> RESET
    [] op = "initSweep" -> INIT_SWEEP
    [] op = "getOperacakeBoards" -> OPERACAKE_GET_BOARDS
    [] op = "setOperacakePorts" -> OPERACAKE_SET_PORTS
    [] op = "setOperacakeRanges" -> OPERACAKE_SET_RANGES
    [] op = "operacakeGpioTest" -> OPERACAKE_GPIO_TEST
    [] op = "setClkoutEnable" -> CLKOUT_ENABLE
    [] OTHER -> UI_ENABLE

\* the operations that validate their arguments after the version check
Validating == {"initSweep", "setOperacakePorts"}

StreamKinds == {"transmit", "receive", "sweepReceive"}
Kinds == StreamKinds \cup {"cpld_write"}

\* variant: transmit and receive exchange their modes
ModeOf_Swapped(k) ==
  CASE k = "transmit" -> RECEIVE
    [] k = "receive" -> TRANSMIT
    [] k = "sweepReceive" -> RX_SWEEP
    [] OTHER -> CPLD_UPDATE

ModeOf(k) ==
  CASE k = "transmit" -> TRANSMIT
    [] k = "receive" -> RECEIVE
    [] k = "sweepReceive" -> RX_SWEEP
    [] OTHER -> CPLD_UPDATE

\* ------------------------------------------------------------------ state
VARIABLES
  streaming,      \* HackrfDevice._streaming
  stopRequested,  \* HackrfDevice._stopRequested
  usbApiVersion,  \* deviceDescriptor.bcdDevice
  hackrfs,        \* the HackRF devices plugged in, the module variable
                  \* visible_hackrfs and the last run of scan_hackrfs
  handle,         \* the USB device: "claimed" (open, interface claimed),
                  \* "released" (open, interface released) or "closed"
  sweepInit,      \* history: an initSweep request has completed successfully
  pc,             \* position of the lock-holding async function
  kind,           \* which operation holds (or last held) the lock
  poll,           \* closure state of poll() and the endpoint's transfers
  ctrlLog,        \* control requests issued by the current / last operation
  cpld,           \* loop state of cpld_write
                  \* (poll and cpld describe the current / last operation:
                  \* a start that takes the lock resets both)
  result,         \* promise of the current / last lock-holding operation
  call            \* the call made by the last step, if any: a start call
                  \* and the error it was rejected with before taking the
                  \* lock, or a control operation, the error it failed with
                  \* and the vendor request it issued (0: none) with
                  \* its wIndex; arg is the gain passed to a gain setter
                  \* or the bandwidth passed to a bandwidth function,
                  \* and ret the value that function returned; stale
                  \* tells whether a stream that took the lock found
                  \* the stop flag set

vars == <<streaming, stopRequested, usbApiVersion, hackrfs, handle, sweepInit,
          pc, kind, poll, ctrlLog, cpld, result, call>>

NoCall ==
  [kind |-> "none", err |-> "none", req |-> 0, index |-> 0, arg |-> 0,
   ret |-> 0, stale |-> FALSE]

NoErr == [src |-> "none", n |-> 0]
Err(src, n) == [src |-> src, n |-> n]

Pending == [state |-> "pending", reason |-> NoErr]
Resolved == [state |-> "resolved", reason |-> NoErr]
Rejected(e) == [state |-> "rejected", reason |-> e]

ModeRequest(m) ==
  [dir |-> "out", request |-> SET_TRANSCEIVER_MODE, value |-> m, index |-> 0,
   len |-> 0]

\* closure state of one poll() call; xfers[t] is the buffer of transfer t,
\* inflight the transfers owned by the transport, cancelReq the transfers
\* on which cancel() was called, immQueue the setImmediate queue.
NewPoll(out, tc) ==
  [ isOut |-> out, transferCount |-> tc, tasks |-> 0,
    pendingTransfers |-> {}, cancelled |-> FALSE,
    settled |-> FALSE, rejected |-> FALSE, reason |-> NoErr,
    outcome |-> Pending,
    xfers |-> <<>>, inflight |-> {}, cancelReq |-> {}, immQueue |-> <<>>,
    calls |-> 0, cbStopped |-> FALSE, userCalls |-> 0, userStopped |-> FALSE,
    firstErr |-> NoErr, lastErr |-> NoErr, cancelledSeen |-> FALSE,
    doneAt |-> <<>>, doneAs |-> <<>>, cbOn |-> 0 ]

\* history of the stream: the first and the latest failure that happened
\* (a transfer reported with an error status other than a requested
\* cancellation, an exception of the callback or of submit(), a failed mode
\* request), and whether a requested cancellation was reported
NoteErr(s, e) ==
  [s EXCEPT !.firstErr = IF @ = NoErr THEN e ELSE @, !.lastErr = e]

\* history of the completions: doneAt[t] = k while the completion of
\* transfer t, the k-th one the transport reported, waits to be processed
\* (0: not reported yet, or processed), and doneAs[t] the status it was
\* reported with ("none": not reported yet, or processed)
Completions(s) == Len(s.xfers) - Cardinality(s.inflight)

NoteStatus(s, t, status) ==
  LET s0 == [s EXCEPT !.doneAt[t] = Completions(s) + 1,
                      !.doneAs[t] = status]
  IN CASE status = "error" -> NoteErr(s0, Err("error", t))
       [] status = "cancelled" /\ t \notin s.cancelReq ->
            NoteErr(s0, Err("cancelled", t))
       [] status = "cancelled" -> [s0 EXCEPT !.cancelledSeen = TRUE]
       [] OTHER -> s0

tryCancel(s) ==
  IF s.cancelled THEN s
  ELSE [s EXCEPT !.cancelReq = @ \cup s.pendingTransfers, !.cancelled = TRUE]

\* variant: a stop never cancels, whatever the direction
wrapResolve_NoCancel(s) == [s EXCEPT !.settled = TRUE]

wrapResolve(s) ==
  LET s1 == [s EXCEPT !.settled = TRUE]
  IN IF ~s.isOut THEN tryCancel(s1) ELSE s1

\* variant: the error is recorded but the other transfers are left running
wrapReject_NoCancel(s, x) ==
  [s EXCEPT !.settled = TRUE, !.rejected = TRUE, !.reason = x]

wrapReject(s, x) ==
  tryCancel([s EXCEPT !.settled = TRUE, !.rejected = TRUE, !.reason = x])

\* variant: settles without waiting for the pending set to drain
doSettle_NoDrain(s) ==
  IF s.settled
  THEN IF s.outcome.state = "pending"
       THEN [s EXCEPT !.outcome =
               IF s.rejected THEN Rejected(s.reason) ELSE Resolved]
       ELSE s
  ELSE s

\* resolve / reject of an already settled promise has no effect
doSettle(s) ==
  IF s.settled /\ s.pendingTransfers = {}
  THEN IF s.outcome.state = "pending"
       THEN [s EXCEPT !.outcome =
               IF s.rejected THEN Rejected(s.reason) ELSE Resolved]
       ELSE s
  ELSE s

\* variant: the wrapper does not look at _stopRequested
StreamCallback_IgnoreStop(stop, r) == r

\* the callback _stream hands to poll: r is what the user callback would do;
\* "stop" is the user callback's `false`, "stopRequested" the `false` the
\* wrapper returns by itself, without calling the user callback
StreamCallback(stop, r) == IF stop THEN "stopRequested" ELSE r

\* callback(...) === false
IsFalse(r) == r \in {"stop", "stopRequested"}

\* history of the callback: invocations by the engine, invocations of the
\* user callback, whether the engine was told to stop and whether it was the
\* user callback that said so
NoteCall(s, r) ==
  [s EXCEPT !.calls = @ + 1,
            !.userCalls = IF r = "stopRequested" THEN @ ELSE @ + 1,
            !.cbStopped = @ \/ IsFalse(r),
            !.userStopped = @ \/ r = "stop"]

\* variant: safeCall without its `if (settled) return`
safeCallCallback_NoCheck(s, r) ==
  LET s1 == NoteCall(s, r)
  IN CASE IsFalse(r) -> wrapResolve(s1)
       [] r = "throw" ->
            wrapReject(NoteErr(s1, Err("callback", s1.calls)),
                       Err("callback", s1.calls))
       [] OTHER -> s1

\* safeCall(() => { if (callback(...) === false) wrapResolve() })
safeCallCallback(s, r) ==
  IF s.settled THEN s
  ELSE LET s1 == NoteCall(s, r)
       IN CASE IsFalse(r) -> wrapResolve(s1)
            [] r = "throw" ->
                 wrapReject(NoteErr(s1, Err("callback", s1.calls)),
                            Err("callback", s1.calls))
            [] OTHER -> s1

submitTransfer(s, buf) ==
  LET t == Len(s.xfers) + 1
  IN [s EXCEPT !.xfers = Append(@, buf),
               !.doneAt = Append(@, 0),
               !.doneAs = Append(@, "none"),
               !.inflight = @ \cup {t},
               !.pendingTransfers = @ \cup {t}]

\* variant: safeCall without its `if (settled) return`
safeCallSubmit_NoCheck(s, buf, ok) ==
  IF ok THEN submitTransfer(s, buf)
  ELSE LET e == Err("submit", Len(s.xfers) + 1)
       IN wrapReject(NoteErr(s, e), e)

\* safeCall(submitTransfer); ok = FALSE: submit() throws
safeCallSubmit(s, buf, ok) ==
  IF s.settled THEN s
  ELSE IF ok THEN submitTransfer(s, buf)
       ELSE LET e == Err("submit", Len(s.xfers) + 1)
            IN wrapReject(NoteErr(s, e), e)

\* history of the callback: cbOn is the transfer whose buffer the callback
\* was last invoked with in steady state (after is before plus, possibly,
\* one invocation)
NoteOn(after, before, t) ==
  IF after.calls > before.calls THEN [after EXCEPT !.cbOn = t] ELSE after

\* variant: the processed buffer is not submitted again
inNextTick_NoResubmit(s, t, r, ok) ==
  LET s1 == [s EXCEPT !.pendingTransfers = @ \ {t}, !.doneAt[t] = 0,
                      !.doneAs[t] = "none"]
      s2 == NoteOn(safeCallCallback(s1, r), s1, t)
  IN doSettle(s2)

\* variant: the buffer submitted again is always the first one
inNextTick_FirstBuffer(s, t, r, ok) ==
  LET s1 == [s EXCEPT !.pendingTransfers = @ \ {t}, !.doneAt[t] = 0,
                      !.doneAs[t] = "none"]
      s2 == NoteOn(safeCallCallback(s1, r), s1, t)
      s3 == safeCallSubmit(s2, 1, ok)
  IN doSettle(s3)

\* variant: the buffer is submitted again before the callback has seen it
inNextTick_SubmitFirst(s, t, r, ok) ==
  LET s1 == [s EXCEPT !.pendingTransfers = @ \ {t}, !.doneAt[t] = 0,
                      !.doneAs[t] = "none"]
      s2 == safeCallSubmit(s1, s.xfers[t], ok)
      s3 == NoteOn(safeCallCallback(s2, r), s2, t)
  IN doSettle(s3)

inNextTick(s, t, r, ok) ==
  LET s1 == [s EXCEPT !.pendingTransfers = @ \ {t}, !.doneAt[t] = 0,
                      !.doneAs[t] = "none"]
      s2 == NoteOn(safeCallCallback(s1, r), s1, t)
      s3 == safeCallSubmit(s2, s.xfers[t], ok)
  IN doSettle(s3)

\* variant: without the `!rejected` guard, a later error replaces the reason
transferCallback_NoGuard(s, t, status, r, ok) ==
  LET s0 == [NoteStatus(s, t, status) EXCEPT !.inflight = @ \ {t}]
      error == IF status = "ok" \/ (s.cancelled /\ status = "cancelled")
               THEN NoErr ELSE Err(status, t)
      s1 == IF error # NoErr THEN wrapReject(s0, error) ELSE s0
  IN IF s1.settled THEN inNextTick(s1, t, r, ok)
     ELSE [s1 EXCEPT !.immQueue = Append(@, t)]

\* variant: a CANCELLED status is not filtered out after cancellation
transferCallback_NoFilter(s, t, status, r, ok) ==
  LET s0 == [NoteStatus(s, t, status) EXCEPT !.inflight = @ \ {t}]
      error == IF status = "ok" THEN NoErr ELSE Err(status, t)
      s1 == IF ~s0.rejected /\ error # NoErr THEN wrapReject(s0, error)
            ELSE s0
  IN IF s1.settled THEN inNextTick(s1, t, r, ok)
     ELSE [s1 EXCEPT !.immQueue = Append(@, t)]

\* variant: once the stream is settled no error is looked at any more
transferCallback_DropSettled(s, t, status, r, ok) ==
  LET s0 == [NoteStatus(s, t, status) EXCEPT !.inflight = @ \ {t}]
      error == IF status = "ok" \/ (s.cancelled /\ status = "cancelled")
               THEN NoErr ELSE Err(status, t)
      s1 == IF ~s0.settled /\ error # NoErr THEN wrapReject(s0, error)
            ELSE s0
  IN IF s1.settled THEN inNextTick(s1, t, r, ok)
     ELSE [s1 EXCEPT !.immQueue = Append(@, t)]

\* variant: the latest completion is processed first
transferCallback_Lifo(s, t, status, r, ok) ==
  LET s0 == [NoteStatus(s, t, status) EXCEPT !.inflight = @ \ {t}]
      error == IF status = "ok" \/ (s.cancelled /\ status = "cancelled")
               THEN NoErr ELSE Err(status, t)
      s1 == IF ~s0.rejected /\ error # NoErr THEN wrapReject(s0, error)
            ELSE s0
  IN IF s1.settled THEN inNextTick(s1, t, r, ok)
     ELSE [s1 EXCEPT !.immQueue = <<t>> \o @]

\* status is "ok", "error" or "cancelled"
transferCallback(s, t, status, r, ok) ==
  LET s0 == [NoteStatus(s, t, status) EXCEPT !.inflight = @ \ {t}]
      error == IF status = "ok" \/ (s.cancelled /\ status = "cancelled")
               THEN NoErr ELSE Err(status, t)
      s1 == IF ~s0.rejected /\ error # NoErr THEN wrapReject(s0, error)
            ELSE s0
  IN IF s1.settled THEN inNextTick(s1, t, r, ok)
     ELSE [s1 EXCEPT !.immQueue = Append(@, t)]

\* tasks.forEach(submitTransfer => safeCall(submitTransfer)); the first
\* `good` submissions succeed and the next one, if any, throws
RECURSIVE startTasks(_, _, _)
startTasks(s, i, good) ==
  IF i > s.tasks THEN s
  ELSE startTasks(safeCallSubmit(s, i, i <= good), i + 1, good)

\* what the user callback may do at its next invocation
UserResults(s) ==
  IF s.calls < MaxCalls THEN {"continue", "stop", "throw"}
  ELSE {"stop", "throw"}

\* ------------------------------------------------------------------- Init
NoPoll == NewPoll(FALSE, 1)
NoCpld == [len |-> 0, chunkSize |-> 1, i |-> 0, sent |-> 0, chunks |-> <<>>]

\* nothing plugged in, `visible_hackrfs = new Array<DeviceInfo>`, no scan
\* run yet; yielded is the sequence of changes the last scan yielded, and
\* scanned tells that nothing was plugged or unplugged since that scan
NoScan ==
  [present |-> {}, visible_hackrfs |-> <<>>, yielded |-> <<>>,
   scanned |-> FALSE]

Init ==
  /\ streaming = FALSE
  /\ stopRequested = FALSE
  /\ usbApiVersion \in ApiVersions
  /\ hackrfs = NoScan
  /\ handle = "claimed"
  /\ sweepInit = FALSE
  /\ pc = "idle"
  /\ kind = "none"
  /\ poll = NoPoll
  /\ ctrlLog = <<>>
  /\ cpld = NoCpld
  /\ result = [state |-> "none", reason |-> NoErr]
  /\ call = NoCall

\* ---------------------------------------------------------------- actions
\* variant: _lockStream without its check of _streaming
StartError_NoLock(k) ==
  IF k = "sweepReceive" /\ usbApiVersion < ApiSweep THEN "USB_API_VERSION"
  ELSE "none"

\* variant: sweepReceive insists on a configured sweep
StartError_NeedsInit(k) ==
  IF k = "sweepReceive" /\ usbApiVersion < ApiSweep THEN "USB_API_VERSION"
  ELSE IF k = "sweepReceive" /\ ~sweepInit THEN "INVALID_PARAM"
  ELSE IF streaming THEN "BUSY"
  ELSE "none"

\* usbApiRequired (sweepReceive only), then the check of _lockStream
StartError(k) ==
  IF k = "sweepReceive" /\ usbApiVersion < ApiSweep THEN "USB_API_VERSION"
  ELSE IF streaming THEN "BUSY"
  ELSE "none"

\* variant: _stream leaves the stop flag as it finds it
StreamReset_Keep(flag) == flag

\* `this._stopRequested = false`, the first statement of _stream
StreamReset(flag) == FALSE

\* transmit / receive / sweepReceive up to the first suspension point or
\* the first invocation of the callback
StartStream(k, tc) ==
  /\ k \in StreamKinds
  /\ IF StartError(k) # "none"
     THEN /\ call' = [kind |-> k, err |-> StartError(k), req |-> 0,
                   index |-> 0, arg |-> 0, ret |-> 0, stale |-> FALSE]
          /\ UNCHANGED <<streaming, stopRequested, usbApiVersion, hackrfs,
                         handle, sweepInit, pc, kind, poll, ctrlLog, cpld,
                         result>>
     ELSE /\ streaming' = TRUE
          /\ stopRequested' = StreamReset(stopRequested)
          /\ kind' = k
          /\ result' = Pending
          /\ call' = [kind |-> k, err |-> "none", req |-> 0, index |-> 0,
                      arg |-> 0, ret |-> 0, stale |-> stopRequested]
          /\ IF k = "transmit"
             THEN /\ poll' = NewPoll(TRUE, tc)
                  /\ pc' = "prefill"
                  /\ ctrlLog' = <<>>
             ELSE /\ poll' = [NewPoll(FALSE, tc) EXCEPT !.tasks = tc]
                  /\ pc' = "setup"
                  /\ ctrlLog' = <<ModeRequest(ModeOf(k))>>
          /\ cpld' = NoCpld
          /\ UNCHANGED <<usbApiVersion, hackrfs, handle, sweepInit>>

\* one iteration of the fill loop of an OUT stream; the loop ends by
\* exhaustion, by break (stop) or by the exception leaving the executor
PrefillStep(r) ==
  /\ pc = "prefill"
  /\ LET res == StreamCallback(stopRequested, r)
         s1 == NoteCall(poll, res)
     IN CASE res = "throw" ->
               /\ poll' = [NoteErr(s1, Err("callback", s1.calls)) EXCEPT
                             !.outcome = Rejected(Err("callback", s1.calls))]
               /\ pc' = "poll"
               /\ UNCHANGED ctrlLog
          [] IsFalse(res) ->
               /\ poll' = s1
               /\ pc' = "setup"
               /\ ctrlLog' = Append(ctrlLog, ModeRequest(ModeOf(kind)))
          [] OTHER ->
               /\ poll' = [s1 EXCEPT !.tasks = @ + 1]
               /\ IF s1.tasks + 1 < s1.transferCount
                  THEN pc' = "prefill" /\ UNCHANGED ctrlLog
                  ELSE /\ pc' = "setup"
                       /\ ctrlLog' = Append(ctrlLog, ModeRequest(ModeOf(kind)))
  /\ UNCHANGED <<streaming, stopRequested, usbApiVersion, hackrfs, handle,
                 sweepInit, kind, cpld, result>>
  /\ call' = NoCall

\* the initial mode request completes: submit the tasks, or reject
SetupDone(ok, good) ==
  /\ pc = "setup"
  /\ ~ok => good = 0
  /\ pc' = "poll"
  /\ poll' = IF ok THEN doSettle(startTasks(poll, 1, good))
             ELSE [NoteErr(poll, Err("control", Len(ctrlLog))) EXCEPT
                     !.outcome = Rejected(Err("control", Len(ctrlLog)))]
  /\ UNCHANGED <<streaming, stopRequested, usbApiVersion, hackrfs, handle,
                 sweepInit, kind, ctrlLog, cpld, result>>
  /\ call' = NoCall

\* the transport reports the completion of transfer t
\* (inNextTick runs inside this handler only when the stream is settled,
\* where safeCall skips the callback and the submission: their outcomes are
\* not inputs of this step)
TransferComplete(t, status) ==
  /\ pc = "poll"
  /\ t \in poll.inflight
  /\ status = "cancelled" => t \in poll.cancelReq
  /\ poll' = transferCallback(poll, t, status,
                              StreamCallback(stopRequested, "continue"), TRUE)
  /\ UNCHANGED <<streaming, stopRequested, usbApiVersion, hackrfs, handle,
                 sweepInit, pc, kind, ctrlLog, cpld, result>>
  /\ call' = NoCall

\* the oldest setImmediate callback runs
\* (submit() is reached only when the callback continues)
Immediate(r, ok) ==
  /\ pc = "poll"
  /\ poll.immQueue # <<>>
  /\ ~ok => r = "continue"
  /\ poll' = inNextTick([poll EXCEPT !.immQueue = Tail(@)],
                        Head(poll.immQueue),
                        StreamCallback(stopRequested, r), ok)
  /\ UNCHANGED <<streaming, stopRequested, usbApiVersion, hackrfs, handle,
                 sweepInit, pc, kind, ctrlLog, cpld, result>>
  /\ call' = NoCall

\* variant: the OFF request is not awaited, the lock is released at once
Finally_ReleaseEarly ==
  /\ pc = "poll"
  /\ poll.outcome.state # "pending"
  /\ pc' = "off"
  /\ streaming' = FALSE
  /\ ctrlLog' = Append(ctrlLog, ModeRequest(OFF))
  /\ UNCHANGED <<stopRequested, usbApiVersion, hackrfs, handle, sweepInit,
                 kind, poll, cpld, result>>
  /\ call' = NoCall

\* variant: OFF is requested after the await instead of in a finally block
Finally_OnlyOnSuccess ==
  /\ pc = "poll"
  /\ poll.outcome.state # "pending"
  /\ IF poll.outcome.state = "resolved"
     THEN /\ pc' = "off"
          /\ ctrlLog' = Append(ctrlLog, ModeRequest(OFF))
          /\ UNCHANGED <<streaming, result>>
     ELSE /\ pc' = "idle"
          /\ streaming' = FALSE
          /\ result' = poll.outcome
          /\ UNCHANGED ctrlLog
  /\ UNCHANGED <<stopRequested, usbApiVersion, hackrfs, handle, sweepInit,
                 kind, poll, cpld>>
  /\ call' = NoCall

\* await poll(...) returns or throws: the finally block requests OFF
Finally ==
  /\ pc = "poll"
  /\ poll.outcome.state # "pending"
  /\ pc' = "off"
  /\ ctrlLog' = Append(ctrlLog, ModeRequest(OFF))
  /\ UNCHANGED <<streaming, stopRequested, usbApiVersion, hackrfs, handle,
                 sweepInit, kind, poll, cpld, result>>
  /\ call' = NoCall

\* what _stream settles with once the OFF request has completed
StreamResult(out, ok, e) == IF ok THEN out ELSE Rejected(e)

\* the OFF request completes; _lockStream's finally releases the lock
OffDone(ok) ==
  /\ pc = "off"
  /\ pc' = "idle"
  /\ streaming' = FALSE
  /\ result' = StreamResult(poll.outcome, ok, Err("control", Len(ctrlLog)))
  /\ UNCHANGED <<stopRequested, usbApiVersion, hackrfs, handle, sweepInit,
                 kind, poll, ctrlLog, cpld>>
  /\ call' = NoCall

\* variant: a second call takes the request back
RequestStop_Toggle ==
  /\ pc = "prefill" => poll.calls > 0
  /\ stopRequested' = ~stopRequested
  /\ UNCHANGED <<streaming, usbApiVersion, hackrfs, handle, sweepInit, pc,
                 kind, poll, ctrlLog, cpld, result>>
  /\ call' = NoCall

\* (the fill loop is synchronous: while it runs, only the callback itself
\* can call requestStop)
RequestStop ==
  /\ pc = "prefill" => poll.calls > 0
  /\ stopRequested' = TRUE
  /\ UNCHANGED <<streaming, usbApiVersion, hackrfs, handle, sweepInit, pc,
                 kind, poll, ctrlLog, cpld, result>>
  /\ call' = NoCall

\* cpld_write up to its first suspension point
StartCpld(len, chunk) ==
  IF StartError("cpld_write") # "none"
  THEN /\ call' = [kind |-> "cpld_write", err |-> StartError("cpld_write"),
                    req |-> 0, index |-> 0, arg |-> 0,
                    ret |-> 0, stale |-> FALSE]
       /\ UNCHANGED <<streaming, stopRequested, usbApiVersion, hackrfs,
                      handle, sweepInit, pc, kind, poll, ctrlLog, cpld, result>>
  ELSE /\ streaming' = TRUE
       /\ kind' = "cpld_write"
       /\ result' = Pending
       /\ call' = [kind |-> "cpld_write", err |-> "none", req |-> 0,
                   index |-> 0, arg |-> 0, ret |-> 0, stale |-> FALSE]
       /\ cpld' = [len |-> len, chunkSize |-> chunk, i |-> 0, sent |-> 0,
                   chunks |-> <<>>]
       /\ ctrlLog' = <<ModeRequest(CPLD_UPDATE)>>
       /\ pc' = "cpld_mode"
       /\ poll' = NoPoll
       /\ UNCHANGED <<stopRequested, usbApiVersion, hackrfs, handle,
                      sweepInit>>

Min(a, b) == IF a < b THEN a ELSE b

\* variant: the end of the view is not clamped to the length of the data
Subarray_NoClamp(len, begin, end) == [from |-> Min(begin, len), to |-> end]

\* data.subarray(begin, end), as the range of bytes of data it views
Subarray(len, begin, end) == [from |-> Min(begin, len), to |-> Min(end, len)]

\* the loop of cpld_write at offset i: send the next chunk or finish;
\* chunks is the history of the bulk transfers issued
CpldLoop(c) ==
  IF c.i < c.len
  THEN /\ cpld' = [c EXCEPT !.chunks =
                      Append(@, Subarray(c.len, c.i, c.i + c.chunkSize))]
       /\ pc' = "cpld_chunk"
       /\ UNCHANGED <<streaming, result>>
  ELSE /\ cpld' = c
       /\ pc' = "idle"
       /\ streaming' = FALSE
       /\ result' = Resolved

\* variant: a failed request or chunk leaves cpld_write without the finally
CpldFail_KeepLock(e) ==
  /\ pc' = "idle"
  /\ streaming' = TRUE
  /\ result' = Rejected(e)
  /\ UNCHANGED cpld

\* a rejected await leaves the callback of _lockStream: the finally block
\* frees the lock and cpld_write rejects
CpldFail(e) ==
  /\ pc' = "idle"
  /\ streaming' = FALSE
  /\ result' = Rejected(e)
  /\ UNCHANGED cpld

CpldModeDone(ok) ==
  /\ pc = "cpld_mode"
  /\ IF ok THEN CpldLoop(cpld) ELSE CpldFail(Err("control", 1))
  /\ UNCHANGED <<stopRequested, usbApiVersion, hackrfs, handle, sweepInit,
                 kind, poll, ctrlLog>>
  /\ call' = NoCall

CpldChunkDone(ok) ==
  /\ pc = "cpld_chunk"
  /\ IF ok
     THEN CpldLoop([cpld EXCEPT !.i = @ + cpld.chunkSize, !.sent = @ + 1])
     ELSE CpldFail(Err("error", cpld.sent + 1))
  /\ UNCHANGED <<stopRequested, usbApiVersion, hackrfs, handle, sweepInit,
                 kind, poll, ctrlLog>>
  /\ call' = NoCall

\* variant: the version is checked once the request has been issued
GatedOutcome_CheckLate(op, valid, ok) ==
  IF op \in Validating /\ ~valid THEN [err |-> "INVALID_PARAM", req |-> 0]
  ELSE IF usbApiVersion < ApiRequired(op)
  THEN [err |-> "USB_API_VERSION", req |-> RequestOf(op)]
  ELSE [err |-> IF ok THEN "none" ELSE "transfer", req |-> RequestOf(op)]

\* a version-gated control operation: usbApiRequired, then the validation of
\* the arguments, then the control transfer; err is what the call fails
\* with, req the vendor request it has issued (0: none)
GatedOutcome(op, valid, ok) ==
  IF usbApiVersion < ApiRequired(op)
  THEN [err |-> "USB_API_VERSION", req |-> 0]
  ELSE IF op \in Validating /\ ~valid
  THEN [err |-> "INVALID_PARAM", req |-> 0]
  ELSE [err |-> IF ok THEN "none" ELSE "transfer", req |-> RequestOf(op)]

\* a version-gated control operation, from the call to the completion of its
\* control transfer (it holds no lock and shares no state with the streams);
\* valid: the arguments pass the checks, ok: the control transfer succeeds
VersionGated(op, valid, ok) ==
  /\ op \in GatedOps
  /\ op \notin Validating => valid
  /\ ~valid => ok
  /\ LET o == GatedOutcome(op, valid, ok)
     IN /\ call' = [kind |-> op, err |-> o.err, req |-> o.req, index |-> 0,
                   arg |-> 0, ret |-> 0, stale |-> FALSE]
        /\ sweepInit' = (sweepInit \/ (op = "initSweep" /\ o.err = "none"))
  /\ UNCHANGED <<streaming, stopRequested, usbApiVersion, hackrfs, handle, pc,
                 kind, poll, ctrlLog, cpld, result>>

Statuses == {"ok", "error", "cancelled"}

Next ==
  \/ \E k \in StreamKinds, tc \in 1..MaxTransferCount : StartStream(k, tc)
  \/ \E r \in UserResults(poll) : PrefillStep(r)
  \/ \E ok \in BOOLEAN, good \in 0..poll.tasks : SetupDone(ok, good)
  \/ \E t \in poll.inflight, st \in Statuses : TransferComplete(t, st)
  \/ \E r \in UserResults(poll), ok \in BOOLEAN : Immediate(r, ok)
  \/ Finally
  \/ \E ok \in BOOLEAN : OffDone(ok)
  \/ RequestStop
  \/ \E len \in 0..MaxDataLen, chunk \in 1..MaxChunkSize : StartCpld(len, chunk)
  \/ \E ok \in BOOLEAN : CpldModeDone(ok)
  \/ \E ok \in BOOLEAN : CpldChunkDone(ok)

Spec == Init /\ [][Next]_vars

\* the control channel and sweep reception, on firmware 0x0101 to 0x0104
InitGated ==
  /\ streaming = FALSE
  /\ stopRequested = FALSE
  /\ usbApiVersion \in GatedVersions
  /\ hackrfs = NoScan
  /\ handle = "claimed"
  /\ sweepInit = FALSE
  /\ pc = "idle"
  /\ kind = "none"
  /\ poll = NoPoll
  /\ ctrlLog = <<>>
  /\ cpld = NoCpld
  /\ result = [state |-> "none", reason |-> NoErr]
  /\ call = NoCall

\* (the sweeps explored are short ones: the callback stops at its first
\* invocation, submit() does not throw)
NextGated ==
  \/ \E op \in GatedOps, valid \in BOOLEAN, ok \in BOOLEAN :
       VersionGated(op, valid, ok)
  \/ \E tc \in 1..MaxTransferCount : StartStream("sweepReceive", tc)
  \/ \E ok \in BOOLEAN : SetupDone(ok, IF ok THEN poll.tasks ELSE 0)
  \/ \E t \in poll.inflight, st \in Statuses : TransferComplete(t, st)
  \/ Immediate("stop", TRUE)
  \/ Finally
  \/ \E ok \in BOOLEAN : OffDone(ok)
  \/ RequestStop

SpecGated == InitGated /\ [][NextGated]_vars

\* ------------------------------------------------- gains and tuning
SET_LNA_GAIN == 19
SET_VGA_GAIN == 20
SET_TXVGA_GAIN == 21
SET_FREQ_EXPLICIT == 24
BYPASS == 0             \* RfPathFilter.BYPASS
MaxGain == 64           \* the gains explored are the integers -2..MaxGain

GainOps == {"setLnaGain", "setVgaGain", "setTxVgaGain"}
GainInputs == (0 - 2)..MaxGain

\* checkU32: (x >>> 0) === x, which for an integer below 2^32 is x >= 0
checkU32(x) == x >= 0

GainRequest(op) ==
  CASE op = "setLnaGain" -> SET_LNA_GAIN
    [] op = "setVgaGain" -> SET_VGA_GAIN
    [] OTHER -> SET_TXVGA_GAIN

\* variant: a gain between two steps is accepted
GainValid_NoStep(op, g) ==
  CASE op = "setLnaGain" -> checkU32(g) /\ ~(g > 40)
    [] op = "setVgaGain" -> checkU32(g) /\ ~(g > 62)
    [] OTHER -> checkU32(g) /\ ~(g > 47)

\* the check at the head of each gain setter: it passes when the setter
\* does not throw (`checkU32(gainDb) > 40 || gainDb % 8`, ...)
GainValid(op, g) ==
  CASE op = "setLnaGain" -> checkU32(g) /\ ~(g > 40 \/ g % 8 # 0)
    [] op = "setVgaGain" -> checkU32(g) /\ ~(g > 62 \/ g % 2 # 0)
    [] OTHER -> checkU32(g) /\ ~(g > 47)

\* the wIndex of the request of a gain setter
GainSent(op, g) == g

\* what the device answers to the control-in request of a gain setter: one
\* non-zero byte, one zero byte, not one byte, or the transfer fails
Replies == {"ok", "zero", "short", "fail"}

\* a gain setter: the check, then the control-in request with the gain as
\* wIndex, then the check of the answer
GainOutcome(op, g, reply) ==
  IF ~GainValid(op, g)
  THEN [err |-> "INVALID_PARAM", req |-> 0, index |-> 0]
  ELSE [err |-> CASE reply = "fail" -> "transfer"
                  [] reply \in {"zero", "short"} -> "INVALID_PARAM"
                  [] OTHER -> "none",
        req |-> GainRequest(op), index |-> GainSent(op, g)]

\* setLnaGain / setVgaGain / setTxVgaGain, from the call to its outcome
SetGain(op, g, reply) ==
  /\ op \in GainOps
  /\ ~GainValid(op, g) => reply = "ok"
  /\ LET o == GainOutcome(op, g, reply)
     IN call' = [kind |-> op, err |-> o.err, req |-> o.req,
                 index |-> o.index, arg |-> g, ret |-> 0, stale |-> FALSE]
  /\ UNCHANGED <<streaming, stopRequested, usbApiVersion, hackrfs, handle,
                 sweepInit, pc, kind, poll, ctrlLog, cpld, result>>

\* variant: the path is checked once the request has been issued
FreqExplicitOutcome_CheckLate(ifOk, loOk, path, ok) ==
  IF ~ifOk THEN [err |-> "INVALID_PARAM", req |-> 0]
  ELSE IF path # BYPASS /\ ~loOk THEN [err |-> "INVALID_PARAM", req |-> 0]
  ELSE IF ~ok THEN [err |-> "transfer", req |-> SET_FREQ_EXPLICIT]
  ELSE IF ~checkU32(path) \/ path > 2
  THEN [err |-> "INVALID_PARAM", req |-> SET_FREQ_EXPLICIT]
  ELSE [err |-> "none", req |-> SET_FREQ_EXPLICIT]

\* setFrequencyExplicit: checkIFreq, checkLoFreq unless the mixer is
\* bypassed, the check of the path, then the control-out request
FreqExplicitOutcome(ifOk, loOk, path, ok) ==
  IF ~ifOk THEN [err |-> "INVALID_PARAM", req |-> 0]
  ELSE IF path # BYPASS /\ ~loOk THEN [err |-> "INVALID_PARAM", req |-> 0]
  ELSE IF ~checkU32(path) \/ path > 2
  THEN [err |-> "INVALID_PARAM", req |-> 0]
  ELSE [err |-> IF ok THEN "none" ELSE "transfer",
        req |-> SET_FREQ_EXPLICIT]

\* ifOk, loOk: the frequencies are in range; ok: the transfer succeeds
SetFrequencyExplicit(ifOk, loOk, path, ok) ==
  /\ LET o == FreqExplicitOutcome(ifOk, loOk, path, ok)
     IN call' = [kind |-> "setFrequencyExplicit", err |-> o.err,
                 req |-> o.req, index |-> 0, arg |-> 0,
                 ret |-> 0, stale |-> FALSE]
  /\ UNCHANGED <<streaming, stopRequested, usbApiVersion, hackrfs, handle,
                 sweepInit, pc, kind, poll, ctrlLog, cpld, result>>

\* --------------------------------------------- baseband filter bandwidth
\* max2837_ft: each entry is a uint32 (bandwidth in Hz)
max2837_ft ==
  <<1750000, 2500000, 3500000, 5000000, 5500000, 6000000, 7000000, 8000000,
    9000000, 10000000, 12000000, 14000000, 15000000, 20000000, 24000000,
    28000000>>

Undefined == 0 - 1      \* the value `undefined`, which no entry has
MaxDelta == 1           \* the bandwidths explored lie within MaxDelta of
                        \* zero or of a table entry

BwOps == {"computeBasebandFilterBwRoundDownLt", "computeBasebandFilterBw"}
BwInputs ==
  {e + dlt : e \in {0} \cup {max2837_ft[k] : k \in DOMAIN max2837_ft},
             dlt \in (0 - MaxDelta)..MaxDelta}

\* max2837_ft[idx], with the zero-based index of the code: an index past
\* the end reads `undefined`
FtAt(idx) ==
  IF idx \in 0..(Len(max2837_ft) - 1) THEN max2837_ft[idx + 1]
  ELSE Undefined

\* `undefined >= x` is false
Ge(a, b) == a # Undefined /\ a >= b

Max(a, b) == IF a > b THEN a ELSE b

\* `for (idx = 0; idx < max2837_ft.length; idx++)
\*    if (max2837_ft[idx] >= bandwidthHz) break`: the value idx is left with
RECURSIVE FirstGe(_, _)
FirstGe(bandwidthHz, idx) ==
  IF idx < Len(max2837_ft) /\ ~Ge(FtAt(idx), bandwidthHz)
  THEN FirstGe(bandwidthHz, idx + 1)
  ELSE idx

\* variant: the loop stops at the first entry strictly above the bandwidth
computeBasebandFilterBwRoundDownLt_Le(bandwidthHz) ==
  FtAt(Max(FirstGe(bandwidthHz + 1, 0) - 1, 0))

\* computeBasebandFilterBwRoundDownLt, after checkU32
computeBasebandFilterBwRoundDownLt(bandwidthHz) ==
  FtAt(Max(FirstGe(bandwidthHz, 0) - 1, 0))

\* computeBasebandFilterBw, after checkU32: the entry the loop stopped at is
\* tested with `>=` again before rounding down
computeBasebandFilterBw(bandwidthHz) ==
  LET idx == FirstGe(bandwidthHz, 0)
  IN IF Ge(FtAt(idx), bandwidthHz) THEN FtAt(Max(idx - 1, 0))
     ELSE FtAt(idx)

\* a call of one of the two functions: checkU32 throws INVALID_PARAM, and
\* otherwise ret is the value returned
ComputeBw(op, bandwidthHz) ==
  /\ call' = [kind |-> op,
              err |-> IF checkU32(bandwidthHz) THEN "none"
                      ELSE "INVALID_PARAM",
              req |-> 0, index |-> 0, arg |-> bandwidthHz,
              ret |-> IF ~checkU32(bandwidthHz) THEN 0
                      ELSE IF op = "computeBasebandFilterBw"
                      THEN computeBasebandFilterBw(bandwidthHz)
                      ELSE computeBasebandFilterBwRoundDownLt(bandwidthHz),
              stale |-> FALSE]
  /\ UNCHANGED <<streaming, stopRequested, usbApiVersion, hackrfs, handle,
                 sweepInit, pc, kind, poll, ctrlLog, cpld, result>>

\* the control operations that validate their arguments and the pure
\* utility functions, on an idle session
NextControl ==
  \/ \E op \in GainOps, g \in GainInputs, reply \in Replies :
       SetGain(op, g, reply)
  \/ \E ifOk \in BOOLEAN, loOk \in BOOLEAN, path \in (0 - 1)..3,
        ok \in BOOLEAN : SetFrequencyExplicit(ifOk, loOk, path, ok)
  \/ \E op \in GatedOps, valid \in BOOLEAN, ok \in BOOLEAN :
       VersionGated(op, valid, ok)
  \/ \E op \in BwOps, bandwidthHz \in BwInputs : ComputeBw(op, bandwidthHz)
  \/ RequestStop

SpecControl == InitGated /\ [][NextControl]_vars

\* --------------------------------------------------------- device scan
MaxDevices == 3         \* the HackRF devices that can be plugged in

Devices == 1..MaxDevices

\* usbBoardId and serialNumber of a device, as one value: devices 1 and 2
\* are the same board and either have the same serial number or none that
\* can be read (serialNumber undefined); every other device has its own
KeyOf(d) == IF d = 2 THEN 1 ELSE d

\* the DeviceInfo listDevices yields for a device
DeviceInfoOf(d) == [device |-> d, key |-> KeyOf(d)]

\* the orders in which listDevices can yield the devices of a set
Orders(S) ==
  {o \in [1..Cardinality(S) -> S] :
     \A i, j \in 1..Cardinality(S) : o[i] = o[j] => i = j}

\* arr.find(e => e.usbBoardId == x.usbBoardId
\*               && e.serialNumber == x.serialNumber): the position of the
\* first match, 0 when there is none (find returns undefined)
RECURSIVE FindFrom(_, _, _)
FindFrom(arr, key, i) ==
  IF i > Len(arr) THEN 0
  ELSE IF arr[i].key = key THEN i
  ELSE FindFrom(arr, key, i + 1)

\* arr.indexOf(x): the zero-based index of the first element that is x, or
\* -1 (the elements of the arrays are distinct objects with distinct keys)
RECURSIVE IndexFrom(_, _, _)
IndexFrom(arr, x, i) ==
  IF i > Len(arr) THEN 0 - 1
  ELSE IF arr[i] = x THEN i - 1
  ELSE IndexFrom(arr, x, i + 1)

indexOf(arr, x) == IndexFrom(arr, x, 1)

\* arr.splice(start, 1), with a zero-based start: a negative start counts
\* from the end of the array (-1 is the last element)
Splice(arr, start) ==
  LET from == IF start < 0 THEN Max(Len(arr) + start, 0) ELSE start
  IN IF from >= Len(arr) THEN arr
     ELSE [i \in 1..(Len(arr) - 1) |->
             IF i <= from THEN arr[i] ELSE arr[i + 1]]

\* the first loop of scan_hackrfs over the devices listDevices yields
RECURSIVE ScanExtant(_, _, _, _)
ScanExtant(extants, visible, disappeared, out) ==
  IF extants = <<>>
  THEN [visible |-> visible, disappeared |-> disappeared, out |-> out]
  ELSE LET extant == DeviceInfoOf(Head(extants))
           found == FindFrom(visible, extant.key, 1)
       IN IF found # 0
          THEN ScanExtant(Tail(extants), visible,
                          Splice(disappeared,
                                 indexOf(disappeared, visible[found])),
                          out)
          ELSE ScanExtant(Tail(extants), Append(visible, extant),
                          disappeared,
                          Append(out, [change |-> "added", info |-> extant]))

\* the second loop: every device left in disappeared_hackrfs is yielded as
\* removed and spliced out of visible_hackrfs
RECURSIVE ScanGone(_, _, _)
ScanGone(disappeared, visible, out) ==
  IF disappeared = <<>> THEN [visible |-> visible, out |-> out]
  ELSE LET gone == Head(disappeared)
       IN ScanGone(Tail(disappeared),
                   Splice(visible, indexOf(visible, gone)),
                   Append(out, [change |-> "removed", info |-> gone]))

\* scan_hackrfs(), iterated to completion; order: the devices as listDevices
\* yields them
scan_hackrfs(order) ==
  /\ LET s1 == ScanExtant(order, hackrfs.visible_hackrfs,
                          hackrfs.visible_hackrfs, <<>>)
         s2 == ScanGone(s1.disappeared, s1.visible, s1.out)
     IN hackrfs' = [hackrfs EXCEPT !.visible_hackrfs = s2.visible,
                                   !.yielded = s2.out,
                                   !.scanned = TRUE]
  /\ UNCHANGED <<streaming, stopRequested, usbApiVersion, handle, sweepInit,
                 pc, kind, poll, ctrlLog, cpld, result, call>>

Plug(d) ==
  /\ d \notin hackrfs.present
  /\ hackrfs' = [hackrfs EXCEPT !.present = @ \cup {d}, !.scanned = FALSE]
  /\ UNCHANGED <<streaming, stopRequested, usbApiVersion, handle, sweepInit,
                 pc, kind, poll, ctrlLog, cpld, result, call>>

Unplug(d) ==
  /\ d \in hackrfs.present
  /\ hackrfs' = [hackrfs EXCEPT !.present = @ \ {d}, !.scanned = FALSE]
  /\ UNCHANGED <<streaming, stopRequested, usbApiVersion, handle, sweepInit,
                 pc, kind, poll, ctrlLog, cpld, result, call>>

NextScan ==
  \/ \E d \in Devices : Plug(d)
  \/ \E d \in Devices : Unplug(d)
  \/ \E order \in Orders(hackrfs.present) : scan_hackrfs(order)

SpecScan == Init /\ [][NextScan]_vars

\* ------------------------------------------------------------ close
\* variant: close() refuses to run while the lock is held
CloseOutcome_Checked(relOk, closeOk) ==
  IF streaming THEN [err |-> "BUSY", handle |-> handle]
  ELSE IF ~relOk THEN [err |-> "release", handle |-> handle]
  ELSE IF handle = "closed" THEN [err |-> "close", handle |-> handle]
  ELSE IF ~closeOk THEN [err |-> "close", handle |-> "released"]
  ELSE [err |-> "none", handle |-> "closed"]

\* close(): `await iface.release()`, `handle.close()`, `_open = false`, with
\* no check of its own; relOk: the release succeeds, closeOk: handle.close()
\* does not throw (what the transport does with a stream still running, or
\* with a device already closed, is its own business: both are open)
CloseOutcome(relOk, closeOk) ==
  IF ~relOk THEN [err |-> "release", handle |-> handle]
  ELSE IF handle = "closed" THEN [err |-> "close", handle |-> handle]
  ELSE IF ~closeOk THEN [err |-> "close", handle |-> "released"]
  ELSE [err |-> "none", handle |-> "closed"]

\* close(), from the call to its outcome
Close(relOk, closeOk) ==
  /\ LET o == CloseOutcome(relOk, closeOk)
     IN /\ handle' = o.handle
        /\ call' = [kind |-> "close", err |-> o.err, req |-> 0, index |-> 0,
                    arg |-> 0, ret |-> 0, stale |-> FALSE]
  /\ UNCHANGED <<streaming, stopRequested, usbApiVersion, hackrfs, sweepInit,
                 pc, kind, poll, ctrlLog, cpld, result>>

\* HackrfDevice.open
open == handle # "closed"

\* streams and close() (the callback stops at its first invocation in
\* steady state, submit() does not throw)
NextClose ==
  \/ \E k \in {"receive", "transmit"}, tc \in 1..MaxTransferCount :
       StartStream(k, tc)
  \/ \E r \in {"continue", "stop"} : PrefillStep(r)
  \/ \E ok \in BOOLEAN : SetupDone(ok, IF ok THEN poll.tasks ELSE 0)
  \/ \E t \in poll.inflight, st \in Statuses : TransferComplete(t, st)
  \/ Immediate("stop", TRUE)
  \/ Finally
  \/ \E ok \in BOOLEAN : OffDone(ok)
  \/ RequestStop
  \/ \E relOk \in BOOLEAN, closeOk \in BOOLEAN : Close(relOk, closeOk)

SpecClose == Init /\ [][NextClose]_vars

\* ----------------------------------------------------------- progress
\* the streams, with a transport that reports every completion, control
\* requests that complete, and an event loop that runs what it has queued
NextLive ==
  \/ \E k \in StreamKinds, tc \in 1..MaxTransferCount : StartStream(k, tc)
  \/ \E r \in UserResults(poll) : PrefillStep(r)
  \/ \E ok \in BOOLEAN, good \in 0..poll.tasks : SetupDone(ok, good)
  \/ \E t \in poll.inflight, st \in Statuses : TransferComplete(t, st)
  \/ \E r \in UserResults(poll), ok \in BOOLEAN : Immediate(r, ok)
  \/ Finally
  \/ \E ok \in BOOLEAN : OffDone(ok)
  \/ RequestStop

Fairness ==
  /\ WF_vars(\E ok \in BOOLEAN, good \in 0..poll.tasks : SetupDone(ok, good))
  /\ WF_vars(\E t \in poll.inflight, st \in Statuses :
               TransferComplete(t, st))
  /\ WF_vars(\E r \in UserResults(poll), ok \in BOOLEAN : Immediate(r, ok))
  /\ WF_vars(Finally)
  /\ WF_vars(\E ok \in BOOLEAN : OffDone(ok))

SpecLive == Init /\ [][NextLive]_vars /\ Fairness

\* ================================================================ claims
OffCount == Cardinality({i \in 1..Len(ctrlLog) : ctrlLog[i].value = OFF})
LastMode == ctrlLog[Len(ctrlLog)].value
Drained(s) == s.pendingTransfers = {} /\ s.inflight = {} /\ s.immQueue = <<>>

\* this step is a start call that took the lock
NewOp == call'.kind \in Kinds /\ call'.err = "none"
ModeReqIssued ==
  ctrlLog' # ctrlLog /\ ctrlLog' # <<>> /\ ctrlLog'[Len(ctrlLog')].value # OFF
OffIssued ==
  ctrlLog' # ctrlLog /\ ctrlLog' # <<>> /\ ctrlLog'[Len(ctrlLog')].value = OFF
Submitted == ~NewOp /\ Len(poll'.xfers) > Len(poll.xfers)
\* a transfer was reported with a real transport error in this stream
XferErrSeen(s) ==
  s.firstErr.src \in {"error", "cancelled"}
    \/ s.lastErr.src \in {"error", "cancelled"}
\* the state of the lock holder and of the device that a rejected start
\* must leave alone
holder == <<streaming, stopRequested, usbApiVersion, hackrfs, handle, pc,
            kind, poll, ctrlLog, cpld, result>>
\* the error of a start call made while the lock is held
BusyError(k) ==
  IF k = "sweepReceive" /\ usbApiVersion < ApiSweep THEN "USB_API_VERSION"
  ELSE "BUSY"

\* C1: the promise of poll is resolved or rejected only in a state where no
\* transfer is pending: the engine's set is empty and the transport owns none
C1_SettledOnlyWhenDrained ==
  poll.outcome.state # "pending" => Drained(poll)

C1_Witness ==
  /\ poll.outcome.state = "rejected"
  /\ Cardinality(poll.cancelReq) >= 2
  /\ poll.cancelledSeen

\* C2 (as stated): a start call made while the lock is held fails with BUSY
\* and changes nothing of the lock holder, the flags, the transfers or the
\* requests issued
C2_BusyAlways ==
  [][(streaming /\ call'.kind # "none")
       => (call'.err = "BUSY" /\ UNCHANGED holder)]_vars

\* C2 (amended): a start call made while the lock is held fails with BUSY,
\* sweepReceive on firmware below API 1.4 with USB_API_VERSION, and in both
\* cases it changes nothing of the lock holder, the flags, the transfers or
\* the requests issued
C2_BusyNoSideEffect ==
  [][(streaming /\ call'.kind # "none")
       => (call'.err = BusyError(call'.kind) /\ UNCHANGED holder)]_vars

C2_Witness ==
  /\ call.err = "BUSY"
  /\ streaming
  /\ poll.inflight # {}
  /\ stopRequested

\* C3: a stream operation that took the lock requests OFF exactly once, and
\* only once the outcome of poll is known: never twice, never while poll is
\* pending, once when it has ended, and as long as it has not requested OFF
\* it is never stuck (awaiting poll with no outcome, no transfer in flight
\* and no completion left to process)
C3_OffOnEveryPath ==
  kind \in StreamKinds =>
    /\ OffCount <= 1
    /\ OffCount = 1 => poll.outcome.state # "pending"
    /\ pc \in {"off", "idle"} => OffCount = 1
    /\ (pc = "poll" /\ poll.outcome.state = "pending")
         => (poll.inflight # {} \/ poll.immQueue # <<>>)

\* C4: a stream operation whose poll was rejected with E rejects with E,
\* also when the OFF request fails
C4_OriginalErrorKept ==
  (kind \in StreamKinds /\ pc = "idle" /\ poll.outcome.state = "rejected")
    => result = poll.outcome

\* C5: order of the events of one stream operation: the lock is held when
\* the mode is requested, the mode request is the first request and
\* precedes every submission, transfers are submitted only once it has
\* completed, OFF is requested once all transfers have settled, the lock is
\* released by the completion of the OFF request; the lock is held while
\* OFF is in flight
C5_Order ==
  /\ [](pc \in {"prefill", "setup", "poll", "off"} => streaming)
  /\ [][kind' \in StreamKinds =>
          /\ ModeReqIssued =>
               /\ streaming'
               /\ ctrlLog' = <<ModeRequest(ModeOf(kind'))>>
               /\ poll'.xfers = <<>>
          /\ Submitted =>
               /\ streaming /\ streaming'
               /\ ctrlLog = <<ModeRequest(ModeOf(kind))>>
               /\ pc \in {"setup", "poll"} /\ pc' = "poll"
          /\ OffIssued =>
               /\ streaming /\ streaming'
               /\ poll.outcome.state # "pending"
               /\ Drained(poll)
          /\ (streaming /\ ~streaming') =>
               /\ pc = "off"
               /\ LastMode = OFF]_vars

\* C5 (as stated): ... and a start call made while OFF is in flight fails
\* with BUSY
C5_OrderBusy ==
  /\ C5_Order
  /\ [][(pc = "off" /\ call'.kind # "none") => call'.err = "BUSY"]_vars

\* C5 (amended): ... and a start call made while OFF is in flight fails:
\* with BUSY, sweepReceive on firmware below API 1.4 with USB_API_VERSION
C5_OrderLocked ==
  /\ C5_Order
  /\ [][(pc = "off" /\ call'.kind # "none")
          => call'.err = BusyError(call'.kind)]_vars

C5_Witness ==
  /\ pc = "off"
  /\ call.err = "BUSY"
  /\ Len(poll.xfers) >= 2

\* C6 (as stated): whenever the lock is free, the last mode request of the
\* operation that held it was OFF, for the four lock-holding operations
C6_OffWhenFree ==
  (~streaming /\ kind \in Kinds) => (ctrlLog # <<>> /\ LastMode = OFF)

\* C6 (amended): whenever the lock is free after transmit, receive or
\* sweepReceive, the last mode request was OFF; cpld_write requests
\* CPLD_UPDATE only and releases the lock without requesting OFF
C6_OffWhenFreeStreams ==
  /\ (~streaming /\ kind \in StreamKinds)
       => (ctrlLog # <<>> /\ LastMode = OFF)
  /\ (~streaming /\ kind = "cpld_write")
       => ctrlLog = <<ModeRequest(CPLD_UPDATE)>>

C6_Witness ==
  /\ ~streaming
  /\ kind \in StreamKinds
  /\ result.state = "rejected"
  /\ poll.xfers # <<>>
  /\ LastMode = OFF

\* C7: the reason poll rejects with is the first failure of the stream, and
\* a recorded reason is never replaced
C7_FirstErrorWins ==
  /\ [](poll.rejected => poll.reason = poll.firstErr)
  /\ [](poll.outcome.state = "rejected"
          => poll.outcome.reason = poll.firstErr)
  /\ [][(poll.rejected /\ ~NewOp)
          => (poll'.rejected /\ poll'.reason = poll.reason)]_vars

C7_Witness ==
  /\ poll.outcome.state = "rejected"
  /\ poll.lastErr # poll.firstErr
  /\ poll.outcome.reason = poll.firstErr

\* C8: once a transfer was reported with a real transport error, cancel has
\* been requested for every transfer still pending, nothing is submitted
\* any more (the erroring step included), and poll settles only by
\* rejecting, once everything has settled
C8_ErrorCancelsAll ==
  /\ [](XferErrSeen(poll) =>
          /\ poll.rejected /\ poll.cancelled
          /\ poll.pendingTransfers \subseteq poll.cancelReq
          /\ poll.outcome.state # "resolved"
          /\ poll.outcome.state = "rejected" => Drained(poll))
  /\ [][(XferErrSeen(poll') /\ ~NewOp) => poll'.xfers = poll.xfers]_vars

C8_Witness ==
  /\ poll.firstErr.src = "error"
  /\ ~poll.cbStopped
  /\ Cardinality(poll.cancelReq) >= 2
  /\ poll.inflight # {}
  /\ poll.outcome.state = "pending"

\* C9: a CANCELLED completion reported after cancellation was requested is
\* not an error: poll never rejects with it, and a stream cancelled by a
\* stop of the callback in which no failure happened does not reject, and
\* has resolved once all its transfers have settled
C9_CancelledIsBenign ==
  /\ poll.rejected => poll.reason.src # "cancelled"
  /\ (poll.cbStopped /\ poll.cancelled /\ poll.firstErr = NoErr) =>
       /\ ~poll.rejected
       /\ poll.outcome.state # "rejected"
       /\ Drained(poll) => poll.outcome = Resolved

C9_Witness ==
  /\ poll.cbStopped
  /\ poll.cancelled
  /\ poll.cancelledSeen
  /\ poll.firstErr = NoErr
  /\ poll.outcome = Resolved

\* C10: in an IN stream, once the callback has returned stop it is not
\* invoked again, cancel has been requested for every pending transfer, and
\* poll resolves only once all of them have settled
C10_StopIn ==
  /\ []((poll.cbStopped /\ ~poll.isOut) =>
          /\ poll.settled /\ poll.cancelled
          /\ poll.pendingTransfers \subseteq poll.cancelReq
          /\ poll.outcome = Resolved => Drained(poll))
  /\ [][(poll.cbStopped /\ ~poll.isOut /\ ~NewOp)
          => poll'.calls = poll.calls]_vars

C10_Witness ==
  /\ poll.cbStopped
  /\ ~poll.isOut
  /\ poll.immQueue # <<>>
  /\ poll.cancelReq # {}

\* the step in which the callback signals stop on a completed buffer in
\* steady state (wrapResolve runs); it processes the oldest queued completion
SteadyStop ==
  pc = "poll" /\ ~NewOp /\ ~poll.settled /\ poll'.settled /\ ~poll'.rejected
OtherPending == poll.pendingTransfers \ {Head(poll.immQueue)}

\* C11 (as stated): in steady state, in either direction, when the callback
\* signals stop on a completed buffer, that buffer is not resubmitted (nothing
\* is submitted in that step or later) and cancel is requested for every
\* other transfer pending at that moment
C11_StopCancelsAll ==
  /\ [][SteadyStop => /\ poll'.xfers = poll.xfers
                       /\ OtherPending \subseteq poll'.cancelReq]_vars
  /\ [][(poll.settled /\ ~NewOp) => poll'.xfers = poll.xfers]_vars

\* C11 (amended): ... that buffer is not resubmitted in either direction; in
\* an IN stream cancel is requested for every other pending transfer, in an
\* OUT stream no cancel is requested and the other transfers are left to
\* complete
C11_StopCancelsIn ==
  /\ [][SteadyStop =>
          /\ poll'.xfers = poll.xfers
          /\ poll.isOut => poll'.cancelReq = poll.cancelReq
          /\ ~poll.isOut => /\ OtherPending \subseteq poll'.cancelReq
                            /\ poll'.cancelled]_vars
  /\ [][(poll.settled /\ ~NewOp) => poll'.xfers = poll.xfers]_vars

C11_Witness ==
  /\ poll.isOut
  /\ poll.settled /\ ~poll.rejected
  /\ poll.cbStopped
  /\ poll.inflight # {}
  /\ poll.cancelReq = {}

\* the fill loop of an OUT stream was left by `break`: the callback signalled
\* stop at a pre-fill invocation, before all transferCount tasks were pushed
PrefillStopped(s) == s.isOut /\ s.cbStopped /\ s.tasks < s.transferCount

\* C12: in an OUT stream whose callback signalled stop during pre-fill (at
\* the first or at a later invocation), no bulk transfer is ever submitted
C12_PrefillStopNoSubmit ==
  PrefillStopped(poll) => poll.xfers = <<>>

\* C13: an OUT stream whose callback signalled stop during pre-fill ends
\* with success: it does not reject when nothing failed, and it is never
\* left awaiting a promise that is still pending when no transfer is
\* outstanding and no completion is left to process
C13_PrefillStopResolves ==
  PrefillStopped(poll) =>
    /\ poll.firstErr = NoErr => poll.outcome.state # "rejected"
    /\ (pc = "poll" /\ Drained(poll)) => poll.outcome.state # "pending"

\* C14: in transmit, once the user callback has returned false it is never
\* invoked again, and the buffer passed to that invocation is never
\* submitted: after a stop in pre-fill the buffer of the breaking iteration
\* is not among the submitted ones, after a stop in steady state nothing is
\* submitted any more
C14_NoCallAfterFalse ==
  /\ [][(poll.isOut /\ poll.userStopped /\ ~NewOp)
          => poll'.userCalls = poll.userCalls]_vars
  /\ []((poll.isOut /\ poll.userStopped /\ poll.tasks < poll.transferCount)
          => \A t \in 1..Len(poll.xfers) : poll.xfers[t] # poll.tasks + 1)
  /\ [][(poll.isOut /\ poll.userStopped /\ poll.settled /\ ~NewOp)
          => poll'.xfers = poll.xfers]_vars

\* the engine invokes its per-buffer callback in this step
Invoked == ~NewOp /\ poll'.calls > poll.calls

C16_StopIdempotent ==
  [][(RequestStop /\ stopRequested) => UNCHANGED holder]_vars

C16_Witness ==
  /\ stopRequested
  /\ call # NoCall
  /\ pc = "poll"
  /\ ~poll.settled
  /\ poll.inflight # {}
  /\ poll.immQueue # <<>>

\* C17: the number of pending transfers never exceeds transferCount, the
\* transport never owns a transfer the engine does not count as pending, and
\* between event-loop steps exactly transferCount transfers are pending from
\* the submission of the initial transfers until a stop or an error
C17_PendingCount ==
  /\ Cardinality(poll.pendingTransfers) <= poll.transferCount
  /\ poll.inflight \subseteq poll.pendingTransfers
  /\ (pc = "poll" /\ poll.outcome = Pending /\ ~poll.settled
        /\ ~poll.cbStopped)
       => Cardinality(poll.pendingTransfers) = poll.transferCount

C17_Witness ==
  /\ pc = "poll"
  /\ ~poll.settled /\ ~poll.cbStopped
  /\ poll.transferCount >= 2
  /\ Len(poll.xfers) > poll.transferCount
  /\ Cardinality(poll.pendingTransfers) = poll.transferCount

\* the user callback threw at a steady-state invocation
ThrowSeen(s) == s.firstErr.src = "callback" /\ s.settled

\* C18: once the callback has thrown in steady state, cancel has been
\* requested for every pending transfer, the callback is not invoked again,
\* nothing is submitted (the throwing step included), and poll rejects with
\* the thrown value, once all pending transfers have settled and not before
C18_ThrowCancelsAll ==
  /\ [](ThrowSeen(poll) =>
          /\ poll.rejected /\ poll.reason = poll.firstErr
          /\ poll.cancelled
          /\ poll.pendingTransfers \subseteq poll.cancelReq
          /\ poll.outcome.state = "rejected" => Drained(poll)
          /\ poll.pendingTransfers = {}
               => poll.outcome = Rejected(poll.firstErr))
  /\ [][(ThrowSeen(poll') /\ ~NewOp) => poll'.xfers = poll.xfers]_vars
  /\ [][(ThrowSeen(poll) /\ ~NewOp) => poll'.calls = poll.calls]_vars

C18_Witness ==
  /\ ThrowSeen(poll)
  /\ Len(poll.xfers) > poll.transferCount
  /\ poll.inflight # {}
  /\ poll.inflight \subseteq poll.cancelReq
  /\ poll.outcome = Pending

\* the version each operation is documented to require
C19_Required(op) ==
  CASE op \in {"sweepReceive", "setUiEnable"} -> 260
    [] op \in {"spiflash_getStatus", "spiflash_clearStatus",
               "setOperacakeRanges", "operacakeGpioTest",
               "setClkoutEnable"} -> 259
    [] op \in {"setHwSyncMode", "reset", "initSweep", "getOperacakeBoards",
               "setOperacakePorts"} -> 258
    [] OTHER -> 0

\* C19: a version-gated operation called on firmware below the version it
\* requires fails with USB_API_VERSION and has issued no control transfer and
\* submitted no bulk transfer; for sweepReceive the lock is not taken, the
\* stop flag is not reset and no mode request is issued
C19_VersionGate ==
  [][(call'.kind \in GatedOps \cup {"sweepReceive"}
        /\ usbApiVersion < C19_Required(call'.kind))
       => /\ call'.err = "USB_API_VERSION"
          /\ call'.req = 0
          /\ UNCHANGED <<holder, sweepInit>>]_vars

C19_Witness ==
  /\ call.kind = "sweepReceive"
  /\ call.err = "USB_API_VERSION"
  /\ stopRequested
  /\ sweepInit
  /\ ~streaming

\* C20 (as stated): a sweepReceive on a session on which no initSweep has
\* succeeded has submitted no bulk transfer
C20_SweepNeedsInit ==
  (kind = "sweepReceive" /\ ~sweepInit) => poll.xfers = <<>>

\* C20 (amended): sweepReceive does not depend on initSweep: whether one has
\* succeeded or not, the call fails only on the firmware version and on the
\* lock, and once its mode request has succeeded it has submitted its
\* transfers
C20_SweepIgnoresInit ==
  /\ [][call'.kind = "sweepReceive" =>
          call'.err = IF usbApiVersion < 260 THEN "USB_API_VERSION"
                      ELSE IF streaming THEN "BUSY" ELSE "none"]_vars
  /\ []((kind = "sweepReceive" /\ pc = "poll" /\ poll.firstErr = NoErr)
          => Len(poll.xfers) >= poll.transferCount)

C20_Witness ==
  /\ kind = "sweepReceive"
  /\ ~sweepInit
  /\ Len(poll.xfers) >= 2
  /\ poll.inflight # {}

\* the session state a control operation must leave alone
session == <<streaming, stopRequested, usbApiVersion, hackrfs, handle,
             sweepInit, pc, kind, poll, ctrlLog, cpld, result>>

\* C21 (as stated): an operation that fails with INVALID_PARAM has issued no
\* transfer and has changed no session state
C21_InvalidBeforeIO ==
  [][call'.err = "INVALID_PARAM"
       => (call'.req = 0 /\ UNCHANGED session)]_vars

\* C21 (amended): an operation whose arguments fail its validation fails
\* with INVALID_PARAM before any transfer; the only INVALID_PARAM raised
\* after a transfer is that of a gain setter whose gain passed the check
\* and whose one request, carrying that gain, was answered with a zero byte
\* or not with one byte; in both cases no session state changes
C21_InvalidLocalOrAnswer ==
  [][call'.err = "INVALID_PARAM"
       => /\ UNCHANGED session
          /\ call'.kind \notin GainOps => call'.req = 0
          /\ call'.kind \in GainOps =>
               IF GainValid(call'.kind, call'.arg)
               THEN /\ call'.req = GainRequest(call'.kind)
                    /\ call'.index = call'.arg
               ELSE call'.req = 0]_vars

C21_Witness ==
  /\ call.kind = "setVgaGain"
  /\ call.err = "INVALID_PARAM"
  /\ call.req = SET_VGA_GAIN
  /\ call.arg = 62
  /\ stopRequested
  /\ sweepInit

\* the gains each setter accepts
C22_Allowed(op) ==
  CASE op = "setLnaGain" -> {0, 8, 16, 24, 32, 40}
    [] op = "setVgaGain" -> {g \in 0..62 : g % 2 = 0}
    [] OTHER -> 0..47

\* C22: a gain setter sends its request exactly for the gains of its list,
\* with the caller's value unchanged as wIndex, and fails with
\* INVALID_PARAM without sending anything for every other integer
C22_GainsNotRounded ==
  [][call'.kind \in GainOps
       => IF call'.arg \in C22_Allowed(call'.kind)
          THEN /\ call'.req = GainRequest(call'.kind)
               /\ call'.index = call'.arg
          ELSE /\ call'.err = "INVALID_PARAM"
               /\ call'.req = 0]_vars

C22_Witness ==
  /\ call.kind = "setLnaGain"
  /\ call.arg = 40
  /\ call.err = "none"
  /\ call.req = SET_LNA_GAIN
  /\ call.index = 40

stream == <<streaming, stopRequested, pc, kind, poll, ctrlLog, cpld, result>>

\* C24 (as stated): the interface is never released and the handle never
\* closed while a stream is active or a bulk transfer is pending
C24_CloseOnlyWhenIdle ==
  handle # "claimed" => (~streaming /\ poll.pendingTransfers = {})

\* C24 (amended): close() looks neither at the lock nor at the transfers:
\* it never fails with BUSY, it leaves the lock and the stream as they are,
\* and the session is marked closed exactly when the release and the close
\* of the handle have both gone through
C24_CloseUnchecked ==
  [][call'.kind = "close"
       => /\ call'.err # "BUSY"
          /\ UNCHANGED stream
          /\ (call'.err = "none") = (handle' = "closed" /\ handle # "closed")
          /\ call'.err = "release" => handle' = handle]_vars

C24_Witness ==
  /\ call.kind = "close"
  /\ call.err = "none"
  /\ ~open
  /\ streaming
  /\ poll.pendingTransfers # {}
  /\ poll.inflight # {}

\* the mode each operation asks for
C25_Mode(k) ==
  CASE k = "transmit" -> 2
    [] k = "receive" -> 1
    [] k = "sweepReceive" -> 5
    [] OTHER -> 4

C25_Request(m) ==
  [dir |-> "out", request |-> 1, value |-> m, index |-> 0, len |-> 0]

\* C25: every control request of a lock-holding operation is a control-out
\* vendor request 1 with index 0 and no payload; its value is the mode of
\* the operation (transmit 2, receive 1, sweepReceive 5, cpld_write 4),
\* requested at most once and before anything else, or 0 (OFF), requested
\* at most once, by the streams only
C25_ModeValues ==
  /\ \A i \in 1..Len(ctrlLog) :
       \/ ctrlLog[i] = C25_Request(0) /\ kind \in StreamKinds
       \/ ctrlLog[i] = C25_Request(C25_Mode(kind)) /\ i = 1
  /\ Cardinality({i \in 1..Len(ctrlLog) : ctrlLog[i].value = 0}) <= 1
  /\ (pc = "idle" /\ kind \in StreamKinds)
       => ctrlLog[Len(ctrlLog)] = C25_Request(0)
  /\ (pc \in {"setup", "cpld_mode", "cpld_chunk"} \/ poll.xfers # <<>>)
       => (ctrlLog # <<>> /\ ctrlLog[1] = C25_Request(C25_Mode(kind)))

C25_Witness ==
  /\ kind = "sweepReceive"
  /\ pc = "idle"
  /\ ctrlLog = <<C25_Request(5), C25_Request(0)>>
  /\ result.state = "resolved"

\* the initial mode request of the stream has failed
SetupFailed(s) == s.firstErr = Err("control", 1)

\* C26: no bulk transfer is submitted before the initial mode request has
\* completed with success (none while the callback fills the buffers, none
\* while the request is in flight, none in the step that sees it fail, none
\* after that); when the request fails poll rejects with its error and so
\* does the operation; the callback is invoked during pre-fill only while
\* no request has been issued, and once one has been issued only on a
\* completed transfer
C26_NoSubmitBeforeMode ==
  /\ [](kind \in StreamKinds =>
          /\ pc \in {"prefill", "setup"} => poll.xfers = <<>>
          /\ poll.xfers # <<>>
               => (ctrlLog # <<>> /\ ctrlLog[1] = ModeRequest(ModeOf(kind)))
          /\ SetupFailed(poll)
               => /\ poll.xfers = <<>>
                  /\ poll.outcome = Rejected(Err("control", 1))
                  /\ pc = "idle" => result = Rejected(Err("control", 1)))
  /\ [][Submitted => (pc \in {"setup", "poll"} /\ ~SetupFailed(poll'))]_vars
  /\ [][(Invoked /\ pc = "prefill") => ctrlLog = <<>>]_vars
  /\ [][(Invoked /\ ctrlLog # <<>>) => poll.immQueue # <<>>]_vars

\* the transfers that hold a buffer: submitted and not yet processed
Outstanding(s) == s.pendingTransfers \cup s.inflight
\* the transfer whose completion this step processes
Processed == CHOOSE t \in poll.pendingTransfers : t \notin poll'.pendingTransfers
\* the buffer of the latest submission
LastBuffer(s) == s.xfers[Len(s.xfers)]

\* C27: a buffer has at most one transfer outstanding; at start each buffer
\* is submitted once; later a step submits at most one transfer, and only
\* the buffer of the one transfer whose completion that step processes,
\* which the transport had reported
C27_BufferSequential ==
  /\ [](\A t, u \in Outstanding(poll) :
          t # u => poll.xfers[t] # poll.xfers[u])
  /\ [][(Submitted /\ pc = "setup")
          => (poll.xfers = <<>>
                /\ \A i \in 1..Len(poll'.xfers) : poll'.xfers[i] = i)]_vars
  /\ [][(Submitted /\ pc = "poll")
          => /\ Len(poll'.xfers) = Len(poll.xfers) + 1
             /\ Cardinality(poll.pendingTransfers \ poll'.pendingTransfers)
                  = 1
             /\ Processed \notin poll.inflight
             /\ LastBuffer(poll') = poll.xfers[Processed]]_vars

C27_Witness ==
  /\ poll.xfers = <<1, 2, 2, 1>>
  /\ poll.pendingTransfers = {3, 4}
  /\ poll.inflight = {3, 4}

\* C28: the callback is invoked in steady state on the buffer of a transfer
\* the transport has reported and that no outstanding transfer uses; a
\* buffer is submitted again only in the step in which the callback was
\* invoked on it, once, and did not stop; during pre-fill (OUT only) the
\* callback is invoked once per buffer, before anything is submitted, and
\* only buffers on which it continued are submitted at start
C28_CallbackOwnsBuffer ==
  /\ [][(Invoked /\ pc = "poll")
          => /\ poll'.cbOn \in poll.pendingTransfers \ poll.inflight
             /\ \A u \in Outstanding(poll) \ {poll'.cbOn} :
                  poll.xfers[u] # poll.xfers[poll'.cbOn]]_vars
  /\ [][(Submitted /\ pc = "poll")
          => /\ poll'.calls = poll.calls + 1
             /\ poll'.cbOn = Processed
             /\ LastBuffer(poll') = poll.xfers[poll'.cbOn]
             /\ ~poll'.settled]_vars
  /\ [][(Invoked /\ pc # "poll")
          => /\ poll.isOut /\ pc = "prefill" /\ poll.xfers = <<>>
             /\ poll'.calls = poll.calls + 1
             /\ poll'.tasks = IF poll'.cbStopped \/ poll'.outcome # Pending
                              THEN poll.tasks ELSE poll.tasks + 1]_vars
  /\ [](poll.isOut => (poll.tasks <= poll.calls
                         /\ (pc = "prefill" => poll.tasks = poll.calls)))
  /\ [][(Submitted /\ pc = "setup")
          => Len(poll'.xfers) <= poll.tasks]_vars

C28_Witness ==
  /\ kind = "transmit"
  /\ poll.cbOn = 1
  /\ poll.xfers = <<1, 1>>
  /\ poll.calls = 2
  /\ poll.inflight = {2}
  /\ ~poll.settled

\* C30: in an IN stream the callback is invoked on the completion that was
\* reported first among those waiting to be processed, whatever the order
\* in which the transfers were submitted
C30_CallbackFifo ==
  [][(~poll.isOut /\ Invoked)
       => /\ poll.doneAt[poll'.cbOn] > 0
          /\ \A u \in 1..Len(poll.doneAt) :
               (u # poll'.cbOn /\ poll.doneAt[u] > 0)
                 => poll.doneAt[u] > poll.doneAt[poll'.cbOn]]_vars

C30_Witness ==
  /\ ~poll.isOut
  /\ poll.cbOn = 2
  /\ poll.calls = 1
  /\ poll.doneAt = <<2, 0, 0>>
  /\ poll.xfers = <<1, 2, 2>>

\* the stream has ended: its promise is settled and the lock released
Ended == ~streaming /\ result.state # "pending"

\* the engine has the end of the stream on record: it is settled (stop in
\* steady state, error) or the wrapper will answer stop at its next
\* invocation
StopOnRecord == poll.settled \/ stopRequested

\* a stream whose end is on record and that has submitted a transfer
\* settles its promise and releases the lock
C29_RecordedStopEnds ==
  (kind \in StreamKinds /\ streaming /\ poll.xfers # <<>> /\ StopOnRecord)
    ~> Ended

\* C29: a stream that has submitted a transfer and in which a stop was
\* signalled or an error occurred has its end on record, whatever the
\* callback does afterwards, and a stream whose end is on record eventually
\* settles its promise and releases the lock; as long as a transfer has not
\* completed the operation is pending and the lock held
C29_StopEventuallyEnds ==
  /\ []((kind \in StreamKinds /\ streaming /\ poll.xfers # <<>>
           /\ poll.outcome = Pending
           /\ (poll.cbStopped \/ stopRequested \/ poll.firstErr # NoErr))
          => StopOnRecord)
  /\ C29_RecordedStopEnds
  /\ [](poll.inflight # {} => (streaming /\ result = Pending))

\* ceil(len / chunk)
C31_Ceil(len, chunk) == (len + chunk - 1) \div chunk

\* C31: cpld_write requests CPLD_UPDATE first and issues no chunk before
\* that request has succeeded; the chunks are issued one at a time (each
\* after the previous one has completed), they view the data in order and
\* without gap, each is chunkSize bytes long except the one that reaches the
\* end of the data; when the call resolves there are ceil(length /
\* chunkSize) of them and they cover the data; when chunk k fails no other
\* chunk is issued and the call rejects with that error
C31_CpldChunks ==
  kind = "cpld_write" =>
    LET n == Len(cpld.chunks)
    IN /\ ctrlLog = <<ModeRequest(4)>>
       /\ pc = "cpld_mode" => n = 0
       /\ n = cpld.sent + (IF pc = "cpld_chunk"
                              \/ result.reason.src = "error" THEN 1 ELSE 0)
       /\ n <= C31_Ceil(cpld.len, cpld.chunkSize)
       /\ \A k \in 1..n :
            /\ cpld.chunks[k].from = (k - 1) * cpld.chunkSize
            /\ cpld.chunks[k].to = cpld.chunks[k].from + cpld.chunkSize
                 \/ (cpld.chunks[k].to = cpld.len
                       /\ k = C31_Ceil(cpld.len, cpld.chunkSize))
            /\ cpld.chunks[k].to > cpld.chunks[k].from
            /\ cpld.chunks[k].to <= cpld.len
       /\ result = Resolved
            => /\ n = C31_Ceil(cpld.len, cpld.chunkSize)
               /\ n > 0 => cpld.chunks[n].to = cpld.len
       /\ result.state = "rejected"
            => /\ pc = "idle"
               /\ result.reason \in {Err("control", 1), Err("error", n)}
               /\ result.reason = Err("control", 1) => n = 0

C31_Witness ==
  /\ kind = "cpld_write"
  /\ result = Resolved
  /\ cpld.len = 3
  /\ cpld.chunkSize = 2
  /\ cpld.chunks = <<[from |-> 0, to |-> 2], [from |-> 2, to |-> 3]>>

\* the entries of the table, and those strictly below a bandwidth
FtEntries == {max2837_ft[k] : k \in DOMAIN max2837_ft}
FtBelow(b) == {e \in FtEntries : e < b}
Largest(S) == CHOOSE x \in S : \A y \in S : y <= x

\* C32: computeBasebandFilterBw(b) returns, for every uint32 b, an entry of
\* the MAX2837 table: b itself when b is an entry, otherwise the largest
\* entry below b, and the first entry when b is below it; also for b above
\* the last entry the result is a defined table value.
C32_BwNearestEntry ==
  (call.kind = "computeBasebandFilterBw" /\ call.err = "none") =>
    /\ call.ret \in FtEntries
    /\ call.arg \in FtEntries => call.ret = call.arg
    /\ (call.arg \notin FtEntries /\ FtBelow(call.arg) # {}) =>
         call.ret = Largest(FtBelow(call.arg))
    /\ FtBelow(call.arg) = {} => call.ret = max2837_ft[1]

\* C33: computeBasebandFilterBwRoundDownLt(b) returns, for every uint32 b,
\* the largest table entry strictly less than b, or the first entry when no
\* entry is strictly less than b; above the last entry it returns the last.
C33_BwRoundDownLt ==
  (call.kind = "computeBasebandFilterBwRoundDownLt" /\ call.err = "none") =>
    /\ call.ret = IF FtBelow(call.arg) # {} THEN Largest(FtBelow(call.arg))
                  ELSE max2837_ft[1]
    /\ call.arg > max2837_ft[Len(max2837_ft)] =>
         call.ret = max2837_ft[Len(max2837_ft)]

C33_Witness ==
  /\ call.kind = "computeBasebandFilterBwRoundDownLt"
  /\ call.err = "none"
  /\ call.arg = 28000001
  /\ call.ret = 28000000

\* C34: the stream lock never leaks: streaming is true exactly while the
\* promise of the transmit, receive, sweepReceive or cpld_write call that
\* took the lock is pending; once it has settled (resolved or rejected,
\* also by a failed OFF request or a failed chunk) streaming is false and
\* the next start takes the lock instead of failing with BUSY.
C34_LockNeverLeaks ==
  /\ [](streaming <=> (kind \in Kinds /\ result = Pending))
  /\ [](result # Pending => (~streaming /\ pc = "idle"))
  /\ [][(result.state \in {"resolved", "rejected"} /\ call'.kind \in Kinds)
          => /\ call'.err # "BUSY"
             /\ call'.err = "none" => (streaming' /\ result' = Pending)]_vars

C34_Witness ==
  /\ kind \in StreamKinds
  /\ poll.outcome.state = "rejected"
  /\ result = Rejected(Err("control", 2))
  /\ result # poll.outcome
  /\ ~streaming

\* C35: a requestStop() made while no stream is active has no effect on the
\* stream started next: a stream that takes the lock resets the stop flag
\* before the first invocation of its callback; and requestStop() changes
\* nothing but the stop flag.
C35_StaleStopIgnored ==
  /\ [][(call'.kind \in StreamKinds /\ call'.err = "none")
          => (~stopRequested' /\ poll'.calls = 0 /\ streaming')]_vars
  /\ [][(stopRequested' /\ ~stopRequested)
          => UNCHANGED <<streaming, usbApiVersion, hackrfs, handle, sweepInit,
                         pc, kind, poll, ctrlLog, cpld, result>>]_vars

C35_Witness ==
  /\ call.kind \in StreamKinds
  /\ call.err = "none"
  /\ call.stale
  /\ ~stopRequested
  /\ streaming
  /\ poll.calls = 0

\* C36: once the stream is marked as ending (settled, by a callback stop, a
\* callback exception or a transport error) no bulk transfer is submitted
\* in it any more, so the transfers cancelled when it was marked include
\* every transfer that is still outstanding.
C36_NoSubmitAfterEnding ==
  /\ [][(poll.settled /\ ~NewOp) => poll'.xfers = poll.xfers]_vars
  /\ [](poll.cancelled =>
         /\ poll.settled
         /\ poll.inflight \subseteq poll.cancelReq
         /\ poll.pendingTransfers \subseteq poll.cancelReq)

C36_Witness ==
  /\ ~poll.isOut
  /\ poll.cbStopped
  /\ poll.cancelReq = {2}
  /\ poll.cancelledSeen
  /\ Len(poll.xfers) = 2
  /\ poll.outcome = Resolved

\* C37: the callback is never invoked for a transfer that completed with an
\* error status: in steady state it is invoked only when the completion at
\* the head of the queue is processed, that completion was successful and
\* the stream was not marked as ending; in IN direction neither a stop nor
\* an error was on record then. A completion that is not successful is
\* never queued.
C37_CallbackOnlyOnSuccess ==
  /\ [](\A k \in 1..Len(poll.immQueue) :
          poll.doneAs[poll.immQueue[k]] = "ok")
  /\ [][(pc = "poll" /\ poll'.calls > poll.calls)
          => /\ ~poll.settled
             /\ poll.immQueue # <<>>
             /\ poll'.cbOn = Head(poll.immQueue)
             /\ poll.doneAs[Head(poll.immQueue)] = "ok"
             /\ ~poll.isOut => (~poll.cbStopped /\ poll.firstErr = NoErr)]_vars

C37_Witness ==
  /\ ~poll.isOut
  /\ poll.firstErr = Err("error", 2)
  /\ poll.lastErr = poll.firstErr
  /\ ~poll.cancelledSeen
  /\ poll.calls = 0
  /\ Len(poll.xfers) = 2
  /\ poll.outcome.state = "rejected"

\* the devices visible_hackrfs holds, and how often a scan yielded a device
\* as added or as removed
VisibleDevices(h) ==
  {h.visible_hackrfs[i].device : i \in DOMAIN h.visible_hackrfs}
Yields(out, change, d) ==
  Cardinality({i \in DOMAIN out :
                 out[i].change = change /\ out[i].info.device = d})

\* C38: after scan_hackrfs() has been iterated to completion,
\* visible_hackrfs holds exactly the devices present in that scan, each
\* newly present device was yielded once as added and each previously
\* visible device that is gone was yielded exactly once as removed,
\* whatever was plugged and unplugged between the scans, devices that share
\* usbBoardId and serialNumber (or have no serial number) included.
C38_ScanTracksDevices ==
  /\ [](hackrfs.scanned =>
         /\ VisibleDevices(hackrfs) = hackrfs.present
         /\ Len(hackrfs.visible_hackrfs) = Cardinality(hackrfs.present))
  /\ [][(hackrfs'.scanned /\ hackrfs'.present = hackrfs.present
          /\ hackrfs' # hackrfs)
          => /\ \A d \in hackrfs.present \ VisibleDevices(hackrfs) :
                  Yields(hackrfs'.yielded, "added", d) = 1
             /\ \A d \in VisibleDevices(hackrfs) \ hackrfs.present :
                  Yields(hackrfs'.yielded, "removed", d) = 1]_vars


TypeOK ==
  /\ streaming \in BOOLEAN
  /\ stopRequested \in BOOLEAN
  /\ handle \in {"claimed", "released", "closed"}
  /\ pc \in {"idle", "prefill", "setup", "poll", "off", "cpld_mode",
             "cpld_chunk"}
  /\ poll.pendingTransfers \subseteq 1..Len(poll.xfers)
====
